---- MODULE Spec2Model ----
(***************************************************************************)
(* Model of src/sync.py: the WebAPIClient upload operations (one step per  *)
(* HTTP request they send) and SyncTool.run (one step per fetch, plus the  *)
(* upload steps it drives).                                                *)
(*                                                                         *)
(* The specifications:                                                     *)
(*   SpecUpload      an upload operation is called directly with any       *)
(*                   record list (the WebAPIClient boundary);              *)
(*   SpecUploadLive  SpecUpload, where every pending request returns;      *)
(*   Spec            SyncTool.run from start to return;                    *)
(*   SpecInterrupt   Spec, with a KeyboardInterrupt while run executes;    *)
(*   SpecValidate    a validator is called on rows, then on its output.    *)
(***************************************************************************)
EXTENDS Integers, Sequences, FiniteSets, TLC

VARIABLES
    config,         \* DatabaseConfig.config: which keys are present, batch sizes
    call,           \* frame of the upload operation in progress
    reqs,           \* HTTP requests sent by the current upload call, in order
    success_count,  \* success_count of the batch loops
    ret,            \* what the upload call did: "none" | "True" | "False" | "raised"
    rpc,            \* position of SyncTool.run
    ent,            \* index in Order of the entity run is working on
    conn,           \* DatabaseConnector.connection: opens, closes
    fetched,        \* per entity: "no" | "None" (the fetch failed) | "empty" (no row) |
                    \*   "no valid" (rows, none of them valid) | "rows"
    rets,           \* per entity: what its upload call did in this run
    requested,      \* the endpoints an HTTP request was sent to
    result,         \* what run did: "none" | "True" | "False" | "raised"
    validated       \* the validator call under way: its entity, rows and outcome

vars == <<config, call, reqs, success_count, ret, rpc, ent, conn, fetched, rets, requested, result,
          validated>>

uploadVars == <<call, reqs, success_count, ret, requested>>
runVars == <<rpc, ent, conn, fetched, rets, result, validated>>

----------------------------------------------------------------------------
(* Bounds of the model *)

MaxLen == 5         \* longest small record list
MaxBatch == 3       \* largest small batch size

(* Program constants *)

LargeThreshold == 1000      \* len(...) > 1000
AccMasterBatch == 200       \* batch_size=200
AccInvmastBatch == 500      \* batch_size=500
DefaultBatchSize == 1000    \* settings.get("batch_size", 1000)
DefaultLargeBatch == 500    \* settings.get("large_table_batch_size", 500)

----------------------------------------------------------------------------
(* Helpers *)

Min(a, b) == IF a < b THEN a ELSE b

\* (mutant) the slice loses its last record: data[i:j-1]
Slice_Short(data, i, j) == SubSeq(data, i + 1, Min(j - 1, Len(data)))

\* data[i:j] of Python, for 0 <= i
Slice(data, i, j) == SubSeq(data, i + 1, Min(j, Len(data)))

Iota(n) == [k \in 1..n |-> k]

\* the small record lists: record k of a list is the record with id k
SmallData == {Iota(n) : n \in 0..MaxLen}

\* record counts around the large-dataset threshold
LargeData == {Iota(n) : n \in {LargeThreshold - 1, LargeThreshold, LargeThreshold + 1}}

BatchSizes == (-1)..MaxBatch

----------------------------------------------------------------------------
(* Endpoints: WebAPIClient class constants *)

ENDPOINT_USERS == "/upload-users/"
ENDPOINT_MISEL == "/upload-misel/"
ENDPOINT_ACC_MASTER == "/upload-acc-master/"
ENDPOINT_ACC_LEDGERS == "/upload-acc-ledgers/"
ENDPOINT_ACC_INVMAST == "/upload-acc-invmast/"
ENDPOINT_CASH_BANK == "/upload-cashandbankaccmaster/"
ENDPOINT_ACC_TT_SERVICE == "/upload-accttservicemaster/"

\* endpoint_map.get(table_name, self.ENDPOINT_ACC_MASTER)
WithClearEndpoint(table_name) ==
    CASE table_name = "acc_master" -> ENDPOINT_ACC_MASTER
      [] table_name = "acc_ledgers" -> ENDPOINT_ACC_LEDGERS
      [] table_name = "acc_invmast" -> ENDPOINT_ACC_INVMAST
      [] OTHER -> ENDPOINT_ACC_MASTER

\* endpoint_map.get(endpoint_key, f"/upload-{endpoint_key}/")
BatchesEndpoint(endpoint_key) ==
    CASE endpoint_key = "acc_ledgers" -> ENDPOINT_ACC_LEDGERS
      [] endpoint_key = "acc_invmast" -> ENDPOINT_ACC_INVMAST
      [] OTHER -> "/upload-other/"

----------------------------------------------------------------------------
(* Configuration *)

\* f"{self.config.api_base_url}...?client_id={self.config.client_id}" raises
\* KeyError unless config["api"]["base_url"] and config["settings"]["client_id"] exist
UrlOk == config.api_base_url /\ config.settings /\ config.client_id

\* every key present
FullConfig(batch_size, large_table_batch_size) ==
    [file |-> "ok", database_dsn |-> TRUE, api_base_url |-> TRUE, settings |-> TRUE,
     client_id |-> TRUE,
     batch_size |-> batch_size, large_table_batch_size |-> large_table_batch_size]

\* the configurations of the model: every key present and the two batch sizes
\* set or defaulted, or the defaults with one key (or section) missing
Configs ==
    {FullConfig(DefaultBatchSize, l) : l \in BatchSizes \cup {DefaultLargeBatch}}
    \cup {FullConfig(b, DefaultLargeBatch) : b \in BatchSizes}
    \cup {[FullConfig(DefaultBatchSize, DefaultLargeBatch) EXCEPT !.database_dsn = FALSE],
          [FullConfig(DefaultBatchSize, DefaultLargeBatch) EXCEPT !.api_base_url = FALSE],
          [FullConfig(DefaultBatchSize, DefaultLargeBatch) EXCEPT !.client_id = FALSE],
          [FullConfig(DefaultBatchSize, DefaultLargeBatch) EXCEPT !.client_id = FALSE,
                                                                  !.settings = FALSE]}

----------------------------------------------------------------------------
(* HTTP: what self.session.post can do *)

Statuses == {200, 201, 204, 500}

\* a response with some status, or an exception (timeout, connection error)
AllOutcomes == [exc : {FALSE}, status : Statuses] \cup [exc : {TRUE}, status : {0}]

\* inside run: one outcome of each kind
RunOutcomes == {o \in AllOutcomes : o.status \in {0, 200, 500}}

Outcomes == IF rpc = "client" THEN AllOutcomes ELSE RunOutcomes

\* (mutant) every 2xx status counts as success
StatusOk_Any2xx(o) == o.status \in 200..299

\* res.status_code in [200, 201], reached only if post did not raise
StatusOk(o) == o.status \in {200, 201}

Ok(o) == ~o.exc /\ StatusOk(o)

Request(endpoint, force_clear, append, body, kind, o) ==
    [endpoint |-> endpoint, force_clear |-> force_clear, append |-> append,
     body |-> body, kind |-> kind, outcome |-> o]

\* op: the operation the caller called; fn: the function that sends its requests
IdleCall == [op |-> "none", fn |-> "none", table |-> "none", data |-> <<>>, batch_size |-> 0,
             phase |-> "idle", i |-> 0]

Frame(op, fn, table, data, b, phase) ==
    [op |-> op, fn |-> fn, table |-> table, data |-> data, batch_size |-> b,
     phase |-> phase, i |-> 0]

\* the call is over: the frame goes, the result stays
Return(r) == /\ call' = [call EXCEPT !.phase = "idle"]
             /\ ret' = r

\* total_batches = (total_records + batch_size - 1) // batch_size
total_batches(total_records, batch_size) == (total_records + batch_size - 1) \div batch_size

----------------------------------------------------------------------------
(* Entry of each upload operation: everything it does before its first     *)
(* HTTP request (or its return, when it sends none).                       *)

Entry(op, fn, table, data, b, phase, r) ==
    [call |-> Frame(op, fn, table, data, b, phase), ret |-> r]

\* an exception leaves fn before any request
Raised(op, fn, data) == Entry(op, fn, "none", data, 0, "idle", "raised")

\* for i in range(0, total_records, batch_size), with total_records > 0:
\* range() raises ValueError for a zero step, and is empty for a negative one
EnterLoop(f, batchPhase) ==
    IF f.batch_size = 0 THEN [call |-> [f EXCEPT !.phase = "idle"], ret |-> "raised"]
    ELSE IF f.batch_size < 0 THEN [call |-> [f EXCEPT !.phase = "idle"], ret |-> "True"]
    ELSE [call |-> [f EXCEPT !.phase = batchPhase, !.i = 0], ret |-> "none"]

\* upload_users, upload_misel, upload_accttservicemaster: the url is built
\* outside the try, then one post
upload_simple(op, data) ==
    IF ~UrlOk THEN Raised(op, op, data)
    ELSE Entry(op, op, "none", data, 0, "single", "none")

_upload_in_batches_with_clear(op, table_name, data, batch_size) ==
    LET fn == "_upload_in_batches_with_clear"
    IN IF data = <<>> THEN Entry(op, fn, table_name, data, batch_size, "idle", "True")
       ELSE IF ~UrlOk THEN Raised(op, fn, data)
       ELSE Entry(op, fn, table_name, data, batch_size, "wc_clear", "none")

\* batch_size is <<>> for None, <<b>> otherwise
_upload_in_batches(op, endpoint_key, data, batch_size) ==
    LET fn == "_upload_in_batches"
    IN IF data = <<>> THEN Entry(op, fn, endpoint_key, data, 0, "idle", "True")
       ELSE IF batch_size = <<>> /\ ~config.settings THEN Raised(op, fn, data)
       ELSE LET b == IF batch_size = <<>> THEN config.batch_size ELSE batch_size[1]
                f == Frame(op, fn, endpoint_key, data, b, "b_clear")
            IN IF ~UrlOk THEN Raised(op, fn, data)
               ELSE IF Len(data) > b THEN [call |-> f, ret |-> "none"]
               ELSE EnterLoop(f, "b_batch")

\* (mutant) the threshold itself already takes the batched path: len >= 1000
upload_acc_master_AtThreshold(data) ==
    LET op == "upload_acc_master"
    IN IF data = <<>> THEN Entry(op, op, "acc_master", data, 0, "idle", "True")
       ELSE IF Len(data) >= LargeThreshold
            THEN _upload_in_batches_with_clear(op, "acc_master", data, AccMasterBatch)
       ELSE IF ~UrlOk THEN Raised(op, op, data)
       ELSE Entry(op, op, "acc_master", data, 0, "am_clear", "none")

upload_acc_master(data) ==
    LET op == "upload_acc_master"
    IN IF data = <<>> THEN Entry(op, op, "acc_master", data, 0, "idle", "True")
       ELSE IF Len(data) > LargeThreshold
            THEN _upload_in_batches_with_clear(op, "acc_master", data, AccMasterBatch)
       ELSE IF ~UrlOk THEN Raised(op, op, data)
       ELSE Entry(op, op, "acc_master", data, 0, "am_clear", "none")

\* self.config.large_table_batch_size is read before the call
upload_acc_ledgers(data) ==
    LET op == "upload_acc_ledgers"
    IN IF ~config.settings THEN Raised(op, op, data)
       ELSE _upload_in_batches(op, "acc_ledgers", data, <<config.large_table_batch_size>>)

upload_acc_invmast(data) ==
    LET op == "upload_acc_invmast"
    IN IF data = <<>> THEN Entry(op, op, "acc_invmast", data, 0, "idle", "True")
       ELSE IF Len(data) > LargeThreshold
            THEN _upload_in_batches_with_clear(op, "acc_invmast", data, AccInvmastBatch)
       ELSE IF ~UrlOk THEN Raised(op, op, data)
       ELSE Entry(op, op, "acc_invmast", data, 0, "single", "none")

upload_cashandbankaccmaster(data) ==
    LET op == "upload_cashandbankaccmaster"
    IN IF ~UrlOk THEN Raised(op, op, data)
       ELSE Entry(op, op, "none", data, 0, "cb_clear", "none")

SimpleOps == {"upload_users", "upload_misel", "upload_accttservicemaster"}

EntityOps == SimpleOps \cup {"upload_acc_master", "upload_acc_ledgers", "upload_acc_invmast",
                             "upload_cashandbankaccmaster"}

\* self.api_client.<op>(data)
Upload(op, data) ==
    CASE op \in SimpleOps -> upload_simple(op, data)
      [] op = "upload_acc_master" -> upload_acc_master(data)
      [] op = "upload_acc_ledgers" -> upload_acc_ledgers(data)
      [] op = "upload_acc_invmast" -> upload_acc_invmast(data)
      [] op = "upload_cashandbankaccmaster" -> upload_cashandbankaccmaster(data)

\* the endpoint of the one-request paths
SingleEndpoint(op) ==
    CASE op = "upload_users" -> ENDPOINT_USERS
      [] op = "upload_misel" -> ENDPOINT_MISEL
      [] op = "upload_accttservicemaster" -> ENDPOINT_ACC_TT_SERVICE
      [] op = "upload_acc_invmast" -> ENDPOINT_ACC_INVMAST

Endpoints == {ENDPOINT_USERS, ENDPOINT_MISEL, ENDPOINT_ACC_MASTER, ENDPOINT_ACC_LEDGERS,
              ENDPOINT_ACC_INVMAST, ENDPOINT_CASH_BANK, ENDPOINT_ACC_TT_SERVICE,
              "/upload-other/"}

\* an upload operation starts: a fresh frame, request log and counter
Invoke(e) ==
    /\ call' = e.call
    /\ ret' = e.ret
    /\ reqs' = <<>>
    /\ success_count' = 0

----------------------------------------------------------------------------
(* The HTTP requests: one action per self.session.post of the upload code.  *)
(* o is what the post did.                                                  *)

Send(r) ==
    /\ reqs' = Append(reqs, r)
    /\ requested' = requested \cup {r.endpoint}

Result(o) == IF Ok(o) THEN "True" ELSE "False"

\* upload_users, upload_misel, upload_accttservicemaster, and the small
\* acc_invmast upload: one post of all the records
PostSingle(o) ==
    /\ call.phase = "single"
    /\ Send(Request(SingleEndpoint(call.op), FALSE, FALSE, call.data, "single", o))
    /\ Return(Result(o))
    /\ UNCHANGED success_count

\* upload_acc_master, small dataset: clear_res = post(url, json=[])
AccMasterClear(o) ==
    /\ call.phase = "am_clear"
    /\ Send(Request(ENDPOINT_ACC_MASTER, TRUE, FALSE, <<>>, "clear", o))
    /\ IF Ok(o) THEN /\ call' = [call EXCEPT !.phase = "am_data"]
                     /\ UNCHANGED ret
       ELSE Return("False")
    /\ UNCHANGED success_count

\* upload_acc_master, small dataset: res = post(url, json=acc_master), the
\* same url, which carries force_clear=true
AccMasterData(o) ==
    /\ call.phase = "am_data"
    /\ Send(Request(ENDPOINT_ACC_MASTER, TRUE, FALSE, call.data, "single", o))
    /\ Return(Result(o))
    /\ UNCHANGED success_count

\* (mutant) the clear's failure is only logged, as in _upload_in_batches
WithClearClear_BestEffort(o) ==
    /\ call.phase = "wc_clear"
    /\ Send(Request(WithClearEndpoint(call.table), TRUE, FALSE, <<>>, "clear", o))
    /\ LET e == EnterLoop(call, "wc_batch")
       IN call' = e.call /\ ret' = e.ret
    /\ UNCHANGED success_count

\* _upload_in_batches_with_clear: the clear, which must succeed
WithClearClear(o) ==
    /\ call.phase = "wc_clear"
    /\ Send(Request(WithClearEndpoint(call.table), TRUE, FALSE, <<>>, "clear", o))
    /\ IF Ok(o) THEN LET e == EnterLoop(call, "wc_batch")
                     IN call' = e.call /\ ret' = e.ret
       ELSE Return("False")
    /\ UNCHANGED success_count

\* (mutant) a failed batch is logged and the loop goes on to the next batch
BatchStep_KeepsGoing(endpoint, append, o) ==
    LET batch == Slice(call.data, call.i, call.i + call.batch_size)
        next == call.i + call.batch_size
    IN /\ Send(Request(endpoint, FALSE, append, batch, "batch", o))
       /\ success_count' = IF Ok(o) THEN success_count + Len(batch) ELSE success_count
       /\ IF next < Len(call.data)
          THEN call' = [call EXCEPT !.i = next] /\ UNCHANGED ret
          ELSE Return("True")

\* (mutant) a failed batch is sent a second time before the upload gives up
BatchStep_RetryOnce(endpoint, append, o) ==
    LET batch == Slice(call.data, call.i, call.i + call.batch_size)
        next == call.i + call.batch_size
        retried == /\ reqs # <<>>
                   /\ reqs[Len(reqs)].kind = "batch"
                   /\ ~Ok(reqs[Len(reqs)].outcome)
    IN /\ Send(Request(endpoint, FALSE, append, batch, "batch", o))
       /\ IF Ok(o)
          THEN /\ success_count' = success_count + Len(batch)
               /\ IF next < Len(call.data)
                  THEN call' = [call EXCEPT !.i = next] /\ UNCHANGED ret
                  ELSE Return("True")
          ELSE IF retried THEN Return("False") /\ UNCHANGED success_count
          ELSE UNCHANGED <<call, ret, success_count>>

\* the body of both batch loops, for the batch at offset call.i
BatchStep(endpoint, append, o) ==
    LET batch == Slice(call.data, call.i, call.i + call.batch_size)
        next == call.i + call.batch_size
    IN /\ Send(Request(endpoint, FALSE, append, batch, "batch", o))
       /\ IF Ok(o)
          THEN /\ success_count' = success_count + Len(batch)
               /\ IF next < Len(call.data)
                  THEN call' = [call EXCEPT !.i = next] /\ UNCHANGED ret
                  ELSE Return("True")
          ELSE /\ Return("False")
               /\ UNCHANGED success_count

\* (mutant) every batch carries append=true, the first one too
WithClearBatch_AppendAlways(o) ==
    /\ call.phase = "wc_batch"
    /\ BatchStep(WithClearEndpoint(call.table), TRUE, o)

\* _upload_in_batches_with_clear: one batch; append=true when i > 0
WithClearBatch(o) ==
    /\ call.phase = "wc_batch"
    /\ BatchStep(WithClearEndpoint(call.table), call.i > 0, o)

\* _upload_in_batches: the clear of a dataset larger than one batch; its
\* failure is logged and nothing else
BatchesClear(o) ==
    /\ call.phase = "b_clear"
    /\ Send(Request(BatchesEndpoint(call.table), FALSE, FALSE, <<>>, "clear", o))
    /\ LET e == EnterLoop(call, "b_batch")
       IN call' = e.call /\ ret' = e.ret
    /\ UNCHANGED success_count

\* (mutant) append=true on every batch of a dataset larger than one batch
BatchesBatch_AppendFromFirst(o) ==
    /\ call.phase = "b_batch"
    /\ BatchStep(BatchesEndpoint(call.table), Len(call.data) > call.batch_size, o)

\* _upload_in_batches: one batch; append=true when total_records > batch_size and i > 0
BatchesBatch(o) ==
    /\ call.phase = "b_batch"
    /\ BatchStep(BatchesEndpoint(call.table),
                 Len(call.data) > call.batch_size /\ call.i > 0, o)

\* upload_cashandbankaccmaster: the clear; a status other than 200/201 is
\* logged, an exception leaves through the except and returns False
CashBankClear(o) ==
    /\ call.phase = "cb_clear"
    /\ Send(Request(ENDPOINT_CASH_BANK, TRUE, FALSE, <<>>, "clear", o))
    /\ IF o.exc THEN Return("False")
       ELSE call' = [call EXCEPT !.phase = "cb_data"] /\ UNCHANGED ret
    /\ UNCHANGED success_count

\* upload_cashandbankaccmaster: res = post(url, json=cashandbankaccmaster)
CashBankData(o) ==
    /\ call.phase = "cb_data"
    /\ Send(Request(ENDPOINT_CASH_BANK, FALSE, FALSE, call.data, "single", o))
    /\ Return(Result(o))
    /\ UNCHANGED success_count

\* one HTTP request of the upload call in progress; run only waits meanwhile
DoPostSingle ==
    /\ \E o \in Outcomes : PostSingle(o)
    /\ UNCHANGED <<config, runVars>>

DoAccMasterClear ==
    /\ \E o \in Outcomes : AccMasterClear(o)
    /\ UNCHANGED <<config, runVars>>

DoAccMasterData ==
    /\ \E o \in Outcomes : AccMasterData(o)
    /\ UNCHANGED <<config, runVars>>

DoWithClearClear ==
    /\ \E o \in Outcomes : WithClearClear(o)
    /\ UNCHANGED <<config, runVars>>

DoWithClearBatch ==
    /\ \E o \in Outcomes : WithClearBatch(o)
    /\ UNCHANGED <<config, runVars>>

DoBatchesClear ==
    /\ \E o \in Outcomes : BatchesClear(o)
    /\ UNCHANGED <<config, runVars>>

DoBatchesBatch ==
    /\ \E o \in Outcomes : BatchesBatch(o)
    /\ UNCHANGED <<config, runVars>>

DoCashBankClear ==
    /\ \E o \in Outcomes : CashBankClear(o)
    /\ UNCHANGED <<config, runVars>>

DoCashBankData ==
    /\ \E o \in Outcomes : CashBankData(o)
    /\ UNCHANGED <<config, runVars>>

----------------------------------------------------------------------------
(* SpecUpload: the upload operations called directly *)

Order == <<"users", "misel", "acc_master", "acc_ledgers", "acc_invmast",
           "cashandbankaccmaster", "acc_tt_servicemaster">>

Entities == {Order[k] : k \in DOMAIN Order}

\* no validator has been called
NoValidation ==
    [entity |-> "none", raw |-> <<>>, out |-> [raised |-> FALSE, valid |-> <<>>], pass |-> 0]

InitRunVars ==
    /\ validated = NoValidation
    /\ ent = 1
    /\ conn = [opened |-> 0, closed |-> 0]
    /\ fetched = [e \in Entities |-> "no"]
    /\ rets = [e \in Entities |-> "none"]
    /\ result = "none"

InitUploadVars ==
    /\ call = IdleCall
    /\ reqs = <<>>
    /\ success_count = 0
    /\ ret = "none"
    /\ requested = {}

InitUpload ==
    /\ config \in Configs
    /\ rpc = "client"
    /\ InitRunVars
    /\ InitUploadVars

Tables == {"acc_master", "acc_ledgers", "acc_invmast", "other"}

\* batch_size: int = 500 of _upload_in_batches_with_clear
WithClearDefaultBatch == 500

\* record lists of one batch whose length is odd and a few hundred
MediumData == {Iota(241), Iota(301)}

\* a caller of WebAPIClient calls one upload operation
CallEntityOp ==
    /\ rpc = "client" /\ call.op = "none"
    /\ \E op \in EntityOps :
          \E data \in SmallData \cup (IF op \in {"upload_acc_master", "upload_acc_invmast"}
                                      THEN LargeData ELSE {}) :
             Invoke(Upload(op, data))
    /\ UNCHANGED <<config, runVars, requested>>

\* a call with some batch size, or one of a few hundred records that leaves
\* batch_size at its default
CallWithClear ==
    /\ rpc = "client" /\ call.op = "none"
    /\ \/ \E t \in Tables, data \in SmallData, b \in BatchSizes :
             Invoke(_upload_in_batches_with_clear("direct", t, data, b))
       \/ \E t \in Tables, data \in MediumData :
             Invoke(_upload_in_batches_with_clear("direct", t, data, WithClearDefaultBatch))
    /\ UNCHANGED <<config, runVars, requested>>

CallBatches ==
    /\ rpc = "client" /\ call.op = "none"
    /\ \E t \in Tables, data \in SmallData, b \in {<<>>} \cup {<<x>> : x \in BatchSizes} :
          Invoke(_upload_in_batches("direct", t, data, b))
    /\ UNCHANGED <<config, runVars, requested>>

NextUpload ==
    \/ CallEntityOp
    \/ CallWithClear
    \/ CallBatches
    \/ DoPostSingle
    \/ DoAccMasterClear
    \/ DoAccMasterData
    \/ DoWithClearClear
    \/ DoWithClearBatch
    \/ DoBatchesClear
    \/ DoBatchesBatch
    \/ DoCashBankClear
    \/ DoCashBankData

SpecUpload == InitUpload /\ [][NextUpload]_vars

----------------------------------------------------------------------------
(* Column values and the Python conversions the validators apply to them.  *)
(* A value is its type and its text: the text of a str is the string, of a *)
(* number or a date what str() gives for it.                               *)

NoneV == [t |-> "none", s |-> ""]
StrV(x) == [t |-> "str", s |-> x]
IntV(x) == [t |-> "int", s |-> x]
FloatV(x) == [t |-> "float", s |-> x]
DateV(x) == [t |-> "date", s |-> x]

\* bool(v): None, '', 0 and 0.0 are false
Truthy(v) ==
    CASE v.t = "none" -> FALSE
      [] v.t = "str" -> v.s # ""
      [] v.t \in {"int", "float"} -> v.s \notin {"0", "0.0"}
      [] OTHER -> TRUE

\* str(v)
PyStr(v) == IF v.t = "none" THEN StrV("None") ELSE StrV(v.s)

\* s.strip(), on the texts of the model
StripText(x) ==
    CASE x = " A1 " -> "A1"
      [] x = " 12 " -> "12"
      [] x = " " -> ""
      [] OTHER -> x

\* str(v).strip()
StrStrip(v) == StrV(StripText(PyStr(v).s))

NumberTexts == {"0", "0.0", "7", "7.0", "12", "12.0", "12.5"}

\* the text of float(x) for a number text x
FloatText(x) ==
    CASE x \in {"0", "0.0"} -> "0.0"
      [] x \in {"7", "7.0"} -> "7.0"
      [] x \in {"12", "12.0"} -> "12.0"
      [] OTHER -> x

\* the text of int(x) for the text x of a float or an int
IntText(x) ==
    CASE x \in {"0", "0.0"} -> "0"
      [] x \in {"7", "7.0"} -> "7"
      [] x \in {"12", "12.0", "12.5"} -> "12"
      [] OTHER -> x

Converted(v) == [exc |-> "none", v |-> v]
Throws(e) == [exc |-> e, v |-> NoneV]

\* float(v): ValueError for a str that is no number, TypeError for None or a date
PyFloat(v) ==
    CASE v.t = "float" -> Converted(v)
      [] v.t = "int" -> Converted(FloatV(FloatText(v.s)))
      [] v.t = "str" -> IF StripText(v.s) \in NumberTexts
                        THEN Converted(FloatV(FloatText(StripText(v.s))))
                        ELSE Throws("ValueError")
      [] OTHER -> Throws("TypeError")

\* int(v): a str must be an integer literal
PyInt(v) ==
    CASE v.t = "int" -> Converted(v)
      [] v.t = "float" -> Converted(IntV(IntText(v.s)))
      [] v.t = "str" -> IF StripText(v.s) \in {"0", "7", "12"}
                        THEN Converted(IntV(StripText(v.s)))
                        ELSE Throws("ValueError")
      [] OTHER -> Throws("TypeError")

\* v.strip() if v else None: only a str has strip
StripOrNone(v) ==
    IF ~Truthy(v) THEN Converted(NoneV)
    ELSE IF v.t = "str" THEN Converted(StrV(StripText(v.s)))
    ELSE Throws("AttributeError")

\* str(v).strip() if v else None
StrStripOrNone(v) == IF Truthy(v) THEN StrStrip(v) ELSE NoneV

\* str(v).strip() if v else ''
StrStripOrEmpty(v) == IF Truthy(v) THEN StrStrip(v) ELSE StrV("")

\* float(v) if v is not None else None
FloatUnlessNone(v) == IF v.t = "none" THEN Converted(NoneV) ELSE PyFloat(v)

\* float(v) if v else None
FloatIfTruthy(v) == IF Truthy(v) THEN PyFloat(v) ELSE Converted(NoneV)

\* try: float(v) if v is not None; except (ValueError, TypeError): None
FloatOrNone(v) ==
    IF v.t = "none" THEN NoneV
    ELSE IF PyFloat(v).exc = "none" THEN PyFloat(v).v ELSE NoneV

\* v.strftime('%Y-%m-%d') if v else None: only a date has strftime
StrftimeIfTruthy(v) ==
    IF ~Truthy(v) THEN Converted(NoneV)
    ELSE IF v.t = "date" THEN Converted(StrV(v.s))
    ELSE Throws("AttributeError")

\* datetime.strptime(x, fmt).strftime('%Y-%m-%d') for '%Y-%m-%d' and then
\* '%d/%m/%Y', '%m/%d/%Y', '%Y/%m/%d', on the texts of the model; "" if none parses
ParseDateText(x) ==
    CASE x = "2024-01-31" -> "2024-01-31"
      [] x = "31/01/2024" -> "2024-01-31"
      [] x = "01/31/2024" -> "2024-01-31"
      [] x = "2024/01/31" -> "2024-01-31"
      [] x = "05/06/2024" -> "2024-06-05"
      [] OTHER -> ""

----------------------------------------------------------------------------
(* The validators: what each does with one row, then with the rows         *)

Clean(rec) == [kind |-> "clean", rec |-> rec]
Dropped(row) == [kind |-> "dropped", rec |-> row]
RaisedIn(row) == [kind |-> "raised", rec |-> row]

\* validate_accttservicemaster_data: a row whose slno int() rejects is skipped
validate_accttservicemaster(r) ==
    IF PyInt(r.slno).exc # "none" THEN Dropped(r)
    ELSE Clean([slno |-> PyInt(r.slno).v,
                type |-> IF Truthy(r.type) THEN PyStr(r.type) ELSE NoneV,
                code |-> IF Truthy(r.code) THEN PyStr(r.code) ELSE NoneV,
                name |-> IF Truthy(r.name) THEN PyStr(r.name) ELSE NoneV])

\* validate_user_data
validate_user(user) ==
    IF ~Truthy(user.id) \/ ~Truthy(user.pass) THEN Dropped(user)
    ELSE IF StripOrNone(user.role).exc # "none" \/ StripOrNone(user.accountcode).exc # "none"
         THEN RaisedIn(user)
    ELSE Clean([id |-> StrStrip(user.id),
                pass |-> StrStrip(user.pass),
                role |-> StripOrNone(user.role).v,
                accountcode |-> StripOrNone(user.accountcode).v])

\* validate_misel_data: the columns go through as they are
validate_misel(m) ==
    IF ~Truthy(m.firm_name) THEN Dropped(m) ELSE Clean(m)

\* validate_acc_master_data: float() is applied outside any try
validate_acc_master(m) ==
    IF ~Truthy(m.code) THEN Dropped(m)
    ELSE IF \/ FloatUnlessNone(m.opening_balance).exc # "none"
            \/ FloatUnlessNone(m.debit).exc # "none"
            \/ FloatUnlessNone(m.credit).exc # "none"
         THEN RaisedIn(m)
    ELSE Clean([code |-> StrStrip(m.code),
                name |-> StrStripOrEmpty(m.name),
                super_code |-> StrStripOrNone(m.super_code),
                opening_balance |-> FloatUnlessNone(m.opening_balance).v,
                debit |-> FloatUnlessNone(m.debit).v,
                credit |-> FloatUnlessNone(m.credit).v,
                place |-> StrStripOrEmpty(m.place),
                phone2 |-> StrStripOrEmpty(m.phone2),
                openingdepartment |-> StrStripOrEmpty(m.openingdepartment),
                area |-> IF Truthy(m.area) /\ m.area # StrV("No Area")
                         THEN StrStrip(m.area) ELSE NoneV])

\* validate_acc_ledgers_data: entry_date
LedgerDate(v) ==
    IF ~Truthy(v) THEN NoneV
    ELSE IF v.t = "date" THEN StrV(v.s)
    ELSE IF v.t = "str" THEN (IF ParseDateText(v.s) = "" THEN NoneV
                              ELSE StrV(ParseDateText(v.s)))
    ELSE PyStr(v)

\* validate_acc_ledgers_data: voucher_no
LedgerVoucher(v) ==
    IF v.t = "none" THEN NoneV
    ELSE IF v.t \in {"int", "float"} THEN PyInt(v).v
    ELSE IF v.t = "str" /\ StripText(v.s) # ""
         THEN (IF PyFloat(StrV(StripText(v.s))).exc = "none"
               THEN PyInt(PyFloat(StrV(StripText(v.s))).v).v
               ELSE NoneV)
    ELSE NoneV

\* validate_acc_ledgers_data: every conversion is inside a try
validate_acc_ledgers(l) ==
    IF ~Truthy(l.code) THEN Dropped(l)
    ELSE Clean([code |-> StrStrip(l.code),
                particulars |-> l.particulars,
                debit |-> FloatOrNone(l.debit),
                credit |-> FloatOrNone(l.credit),
                entry_mode |-> l.entry_mode,
                entry_date |-> LedgerDate(l.entry_date),
                voucher_no |-> LedgerVoucher(l.voucher_no),
                narration |-> l.narration,
                super_code |-> StrStripOrNone(l.super_code)])

\* validate_acc_invmast_data: no row is dropped
validate_acc_invmast(inv) ==
    Clean([modeofpayment |-> inv.modeofpayment,
           customerid |-> inv.customerid,
           invdate |-> IF ~Truthy(inv.invdate) THEN NoneV
                       ELSE IF inv.invdate.t = "date" THEN StrV(inv.invdate.s)
                       ELSE PyStr(inv.invdate),
           nettotal |-> FloatOrNone(inv.nettotal),
           paid |-> FloatOrNone(inv.paid),
           bill_ref |-> inv.bill_ref])

\* validate_cashandbankaccmaster_data: float() and strftime outside any try,
\* and self.config.client_id read for every row
validate_cashandbankaccmaster(m) ==
    IF ~Truthy(m.code) THEN Dropped(m)
    ELSE IF \/ FloatIfTruthy(m.opening_balance).exc # "none"
            \/ StrftimeIfTruthy(m.opening_date).exc # "none"
            \/ FloatIfTruthy(m.debit).exc # "none"
            \/ FloatIfTruthy(m.credit).exc # "none"
            \/ ~(config.settings /\ config.client_id)
         THEN RaisedIn(m)
    ELSE Clean([code |-> StrStrip(m.code),
                name |-> m.name,
                super_code |-> m.super_code,
                opening_balance |-> FloatIfTruthy(m.opening_balance).v,
                opening_date |-> StrftimeIfTruthy(m.opening_date).v,
                debit |-> FloatIfTruthy(m.debit).v,
                credit |-> FloatIfTruthy(m.credit).v,
                client_id |-> StrV("client")])

ValidateRow(entity, row) ==
    CASE entity = "users" -> validate_user(row)
      [] entity = "misel" -> validate_misel(row)
      [] entity = "acc_master" -> validate_acc_master(row)
      [] entity = "acc_ledgers" -> validate_acc_ledgers(row)
      [] entity = "acc_invmast" -> validate_acc_invmast(row)
      [] entity = "cashandbankaccmaster" -> validate_cashandbankaccmaster(row)
      [] entity = "acc_tt_servicemaster" -> validate_accttservicemaster(row)

\* validate_*_data(rows): the clean records in the order of their rows, unless
\* a row raises, which ends the validator (and its caller) with the exception
Validate(entity, rows) ==
    LET res == [k \in 1..Len(rows) |-> ValidateRow(entity, rows[k])]
        IsClean(r) == r.kind = "clean"
        kept == SelectSeq(res, IsClean)
    IN IF \E k \in 1..Len(rows) : res[k].kind = "raised"
       THEN [raised |-> TRUE, valid |-> <<>>]
       ELSE [raised |-> FALSE, valid |-> [k \in 1..Len(kept) |-> kept[k].rec]]

\* valid_x = self.validate_x_data(x): the call, its argument and what it did
Applied(entity, rows, pass) ==
    [entity |-> entity, raw |-> rows, out |-> Validate(entity, rows), pass |-> pass]

----------------------------------------------------------------------------
(* SyncTool.run *)

\* rows the fetches can return: one that validates, one the validator drops,
\* one on which the validator raises
GoodRow(entity) ==
    CASE entity = "users" ->
            [id |-> StrV("u1"), pass |-> StrV("pw"), role |-> StrV(" A1 "), accountcode |-> NoneV]
      [] entity = "misel" ->
            [firm_name |-> StrV("Firm"), address |-> StrV("Street"), phones |-> NoneV,
             mobile |-> NoneV, address1 |-> NoneV, address2 |-> NoneV, address3 |-> NoneV,
             pagers |-> NoneV, tinno |-> StrV("12")]
      [] entity = "acc_master" ->
            [code |-> StrV(" A1 "), name |-> StrV("Name"), super_code |-> StrV("DEBTO"),
             opening_balance |-> FloatV("12.5"), debit |-> IntV("0"), credit |-> NoneV,
             place |-> NoneV, phone2 |-> StrV("12"), openingdepartment |-> NoneV,
             area |-> StrV("No Area")]
      [] entity = "acc_ledgers" ->
            [code |-> StrV("A1"), particulars |-> StrV("Sale"), debit |-> FloatV("12.5"),
             credit |-> StrV("abc"), entry_mode |-> StrV("J"), entry_date |-> DateV("2024-01-31"),
             voucher_no |-> IntV("7"), narration |-> NoneV, super_code |-> StrV("DEBTO")]
      [] entity = "acc_invmast" ->
            [modeofpayment |-> StrV("C"), customerid |-> StrV("A1"),
             invdate |-> DateV("2024-01-31"), nettotal |-> FloatV("12.5"), paid |-> IntV("7"),
             bill_ref |-> StrV("S-12")]
      [] entity = "cashandbankaccmaster" ->
            [code |-> StrV("A1"), name |-> StrV("Cash"), super_code |-> StrV("CASH"),
             opening_balance |-> FloatV("12.5"), opening_date |-> DateV("2024-01-31"),
             debit |-> IntV("0"), credit |-> NoneV]
      [] entity = "acc_tt_servicemaster" ->
            [slno |-> IntV("7"), type |-> StrV("AREA"), code |-> StrV("A1"), name |-> StrV("North")]

\* the required column is NULL (acc_invmast has none)
DroppedRow(entity) ==
    CASE entity = "users" -> [GoodRow(entity) EXCEPT !.pass = NoneV]
      [] entity = "misel" -> [GoodRow(entity) EXCEPT !.firm_name = NoneV]
      [] entity = "acc_tt_servicemaster" -> [GoodRow(entity) EXCEPT !.slno = NoneV]
      [] OTHER -> [GoodRow(entity) EXCEPT !.code = NoneV]

\* a value the validator cannot convert
BadRow(entity) ==
    CASE entity = "users" -> [GoodRow(entity) EXCEPT !.role = IntV("7")]
      [] entity = "acc_master" -> [GoodRow(entity) EXCEPT !.opening_balance = StrV("abc")]
      [] entity = "cashandbankaccmaster" ->
            [GoodRow(entity) EXCEPT !.opening_date = StrV("2024-01-31")]

Copies(row, n) == [k \in 1..n |-> row]

Fetched(rows) == [ok |-> TRUE, rows |-> rows]

\* the entities whose block in run tells a failed fetch (None) from an empty
\* list; for these the model has the fetch that returns no row, for the
\* others the fetch whose only row is not valid
EmptyFetchEntities == {"acc_master", "acc_ledgers", "acc_invmast"}

\* what fetch_<entity>() can return: None, or a list of rows
FetchChoices(entity) ==
    {[ok |-> FALSE, rows |-> <<>>], Fetched(<<GoodRow(entity)>>)}
    \cup (IF entity \in EmptyFetchEntities
          THEN {Fetched(<<>>)}
          ELSE {Fetched(<<DroppedRow(entity)>>)})
    \cup (IF entity # "acc_invmast"
          THEN {Fetched(<<GoodRow(entity), DroppedRow(entity), GoodRow(entity)>>)}
          ELSE {})
    \cup (IF entity \in {"users", "acc_master", "cashandbankaccmaster"}
          THEN {Fetched(<<GoodRow(entity), BadRow(entity)>>)}
          ELSE {})
    \cup (IF entity \in {"acc_ledgers", "acc_invmast"}
          THEN {Fetched(Copies(GoodRow(entity), MaxLen))}
          ELSE {})
    \cup (IF entity = "acc_master"
          THEN {Fetched(Copies(GoodRow(entity), LargeThreshold + 1))}
          ELSE {})

\* self.api_client.upload_<entity>
OpOf(entity) ==
    CASE entity = "users" -> "upload_users"
      [] entity = "misel" -> "upload_misel"
      [] entity = "acc_master" -> "upload_acc_master"
      [] entity = "acc_ledgers" -> "upload_acc_ledgers"
      [] entity = "acc_invmast" -> "upload_acc_invmast"
      [] entity = "cashandbankaccmaster" -> "upload_cashandbankaccmaster"
      [] entity = "acc_tt_servicemaster" -> "upload_accttservicemaster"

\* the configurations run can find in config.json, or no usable file
RunConfigs ==
    {c \in Configs : c.batch_size = DefaultBatchSize
                     /\ c.large_table_batch_size \in {-1, 0, 2, DefaultLargeBatch}}
    \cup {[FullConfig(DefaultBatchSize, DefaultLargeBatch) EXCEPT !.file = f] :
            f \in {"missing", "invalid"}}

Init ==
    /\ config \in RunConfigs
    /\ rpc = "start"
    /\ InitRunVars
    /\ InitUploadVars

\* DatabaseConnector.close
close == conn' = [conn EXCEPT !.closed = @ + 1]

\* run leaves with r: "True", "False", "raised" (an exception), "exit" (sys.exit)
Leave(r) == result' = r /\ rpc' = "done"

\* the upload call is over and its frame is gone
PopCall ==
    /\ call' = IdleCall
    /\ reqs' = <<>>
    /\ success_count' = 0
    /\ ret' = "none"

\* (mutant) run ignores what connect() returned and goes on to the fetches
RunStart_IgnoresConnect(connected) ==
    /\ rpc = "start"
    /\ IF config.file # "ok" THEN Leave("exit") /\ UNCHANGED conn
       ELSE IF ~config.database_dsn THEN Leave("raised") /\ UNCHANGED conn
       ELSE /\ conn' = IF connected THEN [conn EXCEPT !.opened = @ + 1] ELSE conn
            /\ rpc' = "fetch"
            /\ UNCHANGED result
    /\ UNCHANGED <<config, ent, fetched, rets, uploadVars, validated>>

\* run, up to its first fetch: initialize() and connect(). A missing or
\* invalid config.json ends the process (sys.exit), a missing database key
\* raises KeyError out of connect(), a pyodbc.Error makes connect() return False
RunStart(connected) ==
    /\ rpc = "start"
    /\ IF config.file # "ok" THEN Leave("exit") /\ UNCHANGED conn
       ELSE IF ~config.database_dsn THEN Leave("raised") /\ UNCHANGED conn
       ELSE IF ~connected THEN Leave("False") /\ UNCHANGED conn
       ELSE /\ conn' = [conn EXCEPT !.opened = @ + 1]
            /\ rpc' = "fetch"
            /\ UNCHANGED result
    /\ UNCHANGED <<config, ent, fetched, rets, uploadVars, validated>>

DoRunStart == \E connected \in BOOLEAN : RunStart(connected)

\* what run got from the fetch f and the validation v of its rows
Got(f, v) ==
    IF ~f.ok THEN "None"
    ELSE IF f.rows = <<>> THEN "empty"
    ELSE IF ~v.raised /\ v.valid = <<>> THEN "no valid"
    ELSE "rows"

\* (mutant) run calls the upload with whatever the validator returned, an
\* empty list too
RunFetch_UploadsEmpty(f) ==
    LET entity == Order[ent]
        v == Validate(entity, f.rows)
    IN /\ rpc = "fetch" /\ ent <= Len(Order)
       /\ fetched' = [fetched EXCEPT ![entity] = Got(f, v)]
       /\ IF ~f.ok \/ f.rows = <<>>
          THEN ent' = ent + 1 /\ UNCHANGED <<rpc, result, call, reqs, success_count, ret>>
          ELSE IF v.raised
          THEN Leave("raised") /\ UNCHANGED <<ent, call, reqs, success_count, ret>>
          ELSE /\ Invoke(Upload(OpOf(entity), v.valid))
               /\ rpc' = "uploading"
               /\ UNCHANGED <<ent, result>>
       /\ validated' = IF f.ok /\ f.rows # <<>> THEN Applied(entity, f.rows, 1)
                       ELSE NoValidation
       /\ UNCHANGED <<config, conn, rets, requested>>

\* one entity's block of run: fetch, validate, and the call of its upload
\* (up to the upload's first request); f is what the fetch returned
RunFetch(f) ==
    LET entity == Order[ent]
        v == Validate(entity, f.rows)
    IN /\ rpc = "fetch" /\ ent <= Len(Order)
       /\ fetched' = [fetched EXCEPT ![entity] = Got(f, v)]
       /\ IF ~f.ok \/ f.rows = <<>>
          THEN ent' = ent + 1 /\ UNCHANGED <<rpc, result, call, reqs, success_count, ret>>
          ELSE IF v.raised
          THEN Leave("raised") /\ UNCHANGED <<ent, call, reqs, success_count, ret>>
          ELSE IF v.valid = <<>>
          THEN ent' = ent + 1 /\ UNCHANGED <<rpc, result, call, reqs, success_count, ret>>
          ELSE /\ Invoke(Upload(OpOf(entity), v.valid))
               /\ rpc' = "uploading"
               /\ UNCHANGED <<ent, result>>
       /\ validated' = IF f.ok /\ f.rows # <<>> THEN Applied(entity, f.rows, 1)
                       ELSE NoValidation
       /\ UNCHANGED <<config, conn, rets, requested>>

DoRunFetch ==
    /\ rpc = "fetch" /\ ent <= Len(Order)
    /\ \E f \in FetchChoices(Order[ent]) : RunFetch(f)

\* (mutant) a failed upload of any entity stops the run
AfterUpload_AllCritical(entity, r) ==
    IF r = "raised" THEN "raise"
    ELSE IF r = "False" THEN "abort"
    ELSE "next"

\* (mutant) no entity is critical
AfterUpload_NoneCritical(entity, r) ==
    IF r = "raised" THEN "raise" ELSE "next"

\* what run does when upload_<entity> is over: an exception goes on up, a
\* failed acc_master upload stops the run, any other result is ignored
AfterUpload(entity, r) ==
    IF r = "raised" THEN "raise"
    ELSE IF entity = "acc_master" /\ r = "False" THEN "abort"
    ELSE "next"

\* the upload call of the entity returns to run
RunContinue ==
    LET entity == Order[ent]
        todo == AfterUpload(entity, ret)
    IN /\ rpc = "uploading" /\ call.phase = "idle"
       /\ rets' = [rets EXCEPT ![entity] = ret]
       /\ PopCall
       /\ CASE todo = "raise" -> Leave("raised") /\ UNCHANGED <<ent, conn>>
            [] todo = "abort" -> close /\ Leave("False") /\ UNCHANGED ent
            [] todo = "next" -> ent' = ent + 1 /\ rpc' = "fetch" /\ UNCHANGED <<result, conn>>
       /\ validated' = NoValidation
       /\ UNCHANGED <<config, fetched, requested>>

\* (mutant) run returns False at the end if any upload returned False
RunFinish_ReportsFailures ==
    /\ rpc = "fetch" /\ ent = Len(Order) + 1
    /\ close
    /\ Leave(IF \E e \in Entities : rets[e] = "False" THEN "False" ELSE "True")
    /\ UNCHANGED <<config, ent, fetched, rets, uploadVars, validated>>

\* after the last entity: close and return True
RunFinish ==
    /\ rpc = "fetch" /\ ent = Len(Order) + 1
    /\ close
    /\ Leave("True")
    /\ UNCHANGED <<config, ent, fetched, rets, uploadVars, validated>>

Next ==
    \/ DoRunStart
    \/ DoRunFetch
    \/ RunContinue
    \/ RunFinish
    \/ DoPostSingle
    \/ DoAccMasterClear
    \/ DoAccMasterData
    \/ DoWithClearClear
    \/ DoWithClearBatch
    \/ DoBatchesClear
    \/ DoBatchesBatch
    \/ DoCashBankClear
    \/ DoCashBankData

Spec == Init /\ [][Next]_vars

----------------------------------------------------------------------------
(* Reading the request log *)

Failed(r) == ~Ok(r.outcome)

\* positions in reqs of the batch requests, and of the clear requests
BatchIdx == {k \in 1..Len(reqs) : reqs[k].kind = "batch"}
ClearIdx == {k \in 1..Len(reqs) : reqs[k].kind = "clear"}

\* the number (1, 2, ...) of the batch that request k carries
BatchNo(k) == Cardinality({j \in BatchIdx : j <= k})

\* batch j (1, 2, ...) of the record sequence R cut into batches of b, b >= 1
PartitionBatch(R, b, j) ==
    [m \in 1..(Min(j * b, Len(R)) - (j - 1) * b) |-> R[(j - 1) * b + m]]

\* number of records in batches 1..j of n records cut into batches of b
SizeUpTo(n, b, j) == Min(j * b, n)

\* ceil(n / b) for n >= 0, b >= 1
CeilDiv(n, b) == IF n % b = 0 THEN n \div b ELSE (n \div b) + 1

RECURSIVE ConcatBodies(_)
ConcatBodies(rs) ==
    IF rs = <<>> THEN <<>>
    ELSE (IF Head(rs).kind = "batch" THEN Head(rs).body ELSE <<>>) \o ConcatBodies(Tail(rs))

InBatchLoops == call.fn \in {"_upload_in_batches_with_clear", "_upload_in_batches"}

----------------------------------------------------------------------------
(* Claims about the upload operations, checked under SpecUpload *)

\* C1  Sequential abort: in both batch loops, when the request of batch k
\* fails (status other than 200/201, or an exception), it is the last request
\* the upload ever sends, the upload returns False, and success_count is the
\* number of records in batches 1..k-1.
C1_SequentialAbort ==
    \A k \in BatchIdx :
        Failed(reqs[k]) =>
            /\ InBatchLoops
            /\ k = Len(reqs)
            /\ ret = "False"
            /\ success_count = SizeUpTo(Len(call.data), call.batch_size, BatchNo(k) - 1)

\* batch k >= 2 of n >= 3 batches has failed, in each of the two loops
C1_Witness ==
    /\ call.fn = "_upload_in_batches"
    /\ Len(reqs) >= 3
    /\ Failed(reqs[Len(reqs)])
    /\ reqs[Len(reqs)].kind = "batch"
    /\ BatchNo(Len(reqs)) >= 2
    /\ BatchNo(Len(reqs)) < total_batches(Len(call.data), call.batch_size)
    /\ success_count > 0

\* C4  (the claim as stated) every entity's upload operation, called with an
\* empty record list, sends no HTTP request and returns True.
C4_EmptyInputSendsNothing ==
    (call.op \in EntityOps /\ call.data = <<>> /\ UrlOk) =>
        /\ reqs = <<>>
        /\ ret \in {"none", "True"}

\* C7  (the claim as stated) acc_master and acc_invmast: fewer records than
\* the threshold take the single-shot path, the threshold or more take the
\* batched-with-clear path.
C7_AtOrAboveThresholdBatched ==
    (call.op \in {"upload_acc_master", "upload_acc_invmast"} /\ call.data # <<>> /\ UrlOk) =>
        /\ Len(call.data) < LargeThreshold => call.fn = call.op
        /\ Len(call.data) >= LargeThreshold => call.fn = "_upload_in_batches_with_clear"

\* C7  (amended) acc_master and acc_invmast: up to and including the threshold
\* of 1000 records the upload takes the single-shot path (all records in one
\* request), strictly above it the batched-with-clear path (batch requests only).
C7_AboveThresholdBatched ==
    (call.op \in {"upload_acc_master", "upload_acc_invmast"} /\ call.data # <<>>) =>
        /\ Len(call.data) <= LargeThreshold =>
              /\ call.fn = call.op
              /\ \A k \in 1..Len(reqs) :
                    reqs[k].kind # "clear" => reqs[k].kind = "single" /\ reqs[k].body = call.data
        /\ Len(call.data) > LargeThreshold =>
              /\ call.fn = "_upload_in_batches_with_clear"
              /\ \A k \in 1..Len(reqs) : reqs[k].kind \in {"clear", "batch"}

\* exactly 1000 acc_master records went out in one request
C7_Witness ==
    /\ call.op = "upload_acc_master"
    /\ Len(call.data) = LargeThreshold
    /\ Len(reqs) = 2
    /\ reqs[2].kind = "single"
    /\ ret = "True"

\* the log is one clear, then the ceil(n/b) batches in order, append on all
\* but the first
ClearThenBatches ==
    LET n == Len(call.data)
        b == call.batch_size
    IN /\ Len(reqs) = 1 + CeilDiv(n, b)
       /\ reqs[1].kind = "clear" /\ reqs[1].body = <<>>
       /\ \A k \in 2..Len(reqs) :
             /\ reqs[k].kind = "batch"
             /\ reqs[k].body = PartitionBatch(call.data, b, k - 1)
             /\ reqs[k].append = (k > 2)

\* an upload through a batch loop has returned True and every request succeeded
AllSucceeded ==
    /\ InBatchLoops
    /\ call.batch_size >= 1
    /\ call.data # <<>>
    /\ ret = "True"
    /\ \A k \in 1..Len(reqs) : Ok(reqs[k].outcome)

\* C8  (the claim as stated) every upload through a batch loop in which all
\* requests succeed sends exactly one clear first, then the ceil(n/b) batches
\* in order, the first without append and the later ones with it.
C8_AlwaysOneClear == AllSucceeded => ClearThenBatches

\* C8  (amended) as stated for _upload_in_batches_with_clear, and for
\* _upload_in_batches when n > b; when n <= b, _upload_in_batches sends no
\* clear: its only request is the one batch of all n records, without append.
C8_ClearAppendProtocol ==
    AllSucceeded =>
        IF call.fn = "_upload_in_batches" /\ Len(call.data) <= call.batch_size
        THEN /\ Len(reqs) = 1
             /\ reqs[1].kind = "batch" /\ reqs[1].body = call.data /\ ~reqs[1].append
        ELSE ClearThenBatches

\* 1001 acc_master records: one clear and 6 batches of 200, 5 of them appended
C8_Witness ==
    /\ AllSucceeded
    /\ call.op = "upload_acc_master"
    /\ Len(reqs) = 7
    /\ Cardinality({k \in 1..Len(reqs) : reqs[k].append}) = 5

\* C9  Partitioning law: for b >= 1 the batches the loops send are, in order,
\* a prefix of the records, and all of them once the upload returns True;
\* every batch but the last of the ceil(n/b) has exactly b records, none is
\* empty, and an empty record list yields no batch.
C9_PartitionLaw ==
    (InBatchLoops /\ call.batch_size >= 1) =>
        LET all == ConcatBodies(reqs)
            n == Len(call.data)
        IN /\ Len(all) <= n
           /\ all = SubSeq(call.data, 1, Len(all))
           /\ ret = "True" => all = call.data
           /\ \A k \in BatchIdx :
                 /\ reqs[k].body # <<>>
                 /\ Len(reqs[k].body) <= call.batch_size
                 /\ BatchNo(k) < total_batches(n, call.batch_size) =>
                       Len(reqs[k].body) = call.batch_size
           /\ call.data = <<>> => BatchIdx = {}

\* 5 records in batches of 2: two full batches and a last one of 1
C9_Witness ==
    /\ InBatchLoops
    /\ Len(call.data) = 5 /\ call.batch_size = 2
    /\ ret = "True"
    /\ Cardinality(BatchIdx) = 3
    /\ Len(reqs[Len(reqs)].body) = 1

\* the upload's first request was a clear, and it failed
ClearFailed == Len(reqs) >= 1 /\ reqs[1].kind = "clear" /\ Failed(reqs[1])

\* C10  (the claim as stated) acc_master and acc_invmast through
\* _upload_in_batches_with_clear, and acc_ledgers through _upload_in_batches
\* with more records than one batch: when the clear fails, no batch is sent
\* and the upload returns False.
C10_ClearMandatoryForAll ==
    (/\ call.op \in {"upload_acc_master", "upload_acc_invmast", "upload_acc_ledgers"}
     /\ InBatchLoops
     /\ call.batch_size >= 1
     /\ ClearFailed) =>
        /\ BatchIdx = {}
        /\ ret \in {"none", "False"}

\* C10  (amended) the clear is mandatory in _upload_in_batches_with_clear
\* (acc_master, acc_invmast): when it fails it is the only request and the
\* upload returns False. In _upload_in_batches (acc_ledgers) a failed clear
\* does not end the upload: False can only come from a batch sent after it.
C10_MandatoryClear ==
    ClearFailed =>
        /\ call.fn = "_upload_in_batches_with_clear" => Len(reqs) = 1 /\ ret = "False"
        /\ (call.fn = "_upload_in_batches" /\ call.batch_size >= 1) =>
              /\ Len(reqs) = 1 => ret = "none" /\ call.phase = "b_batch"
              /\ ret = "False" => Len(reqs) >= 2 /\ Failed(reqs[Len(reqs)])

\* the clear of a large acc_master upload failed
C10_Witness ==
    /\ ClearFailed
    /\ call.op = "upload_acc_master"
    /\ call.fn = "_upload_in_batches_with_clear"
    /\ ret = "False"

----------------------------------------------------------------------------
(* Claims about SyncTool.run, checked under Spec *)

\* the endpoint the uploads of an entity go to
EndpointOf(entity) ==
    CASE entity = "users" -> ENDPOINT_USERS
      [] entity = "misel" -> ENDPOINT_MISEL
      [] entity = "acc_master" -> ENDPOINT_ACC_MASTER
      [] entity = "acc_ledgers" -> ENDPOINT_ACC_LEDGERS
      [] entity = "acc_invmast" -> ENDPOINT_ACC_INVMAST
      [] entity = "cashandbankaccmaster" -> ENDPOINT_CASH_BANK
      [] entity = "acc_tt_servicemaster" -> ENDPOINT_ACC_TT_SERVICE

\* run has not touched the entity: no fetch, no upload call, no request
Untouched(entity) ==
    /\ fetched[entity] = "no"
    /\ rets[entity] = "none"
    /\ EndpointOf(entity) \notin requested

Critical == "acc_master"
CriticalIdx == CHOOSE k \in DOMAIN Order : Order[k] = Critical

\* upload_acc_master has returned False in this run
CriticalFailed ==
    \/ rets[Critical] = "False"
    \/ (rpc = "uploading" /\ Order[ent] = Critical /\ ret = "False")

\* C2  Fail-fast propagation: once upload_acc_master has returned False, no
\* later entity (acc_ledgers, acc_invmast, cashandbankaccmaster,
\* acc_tt_servicemaster) is fetched or uploaded, and run returns False.
C2_FailFast ==
    CriticalFailed =>
        /\ \A k \in (CriticalIdx + 1)..Len(Order) : Untouched(Order[k])
        /\ ent = CriticalIdx
        /\ result \in {"none", "False"}
        /\ rpc = "done" => result = "False"
        /\ rets[Critical] = "False" => rpc = "done"

\* run has returned False after a failed acc_master upload that followed
\* uploads of users and misel
C2_Witness ==
    /\ rets[Critical] = "False"
    /\ result = "False"
    /\ rets["users"] = "True"
    /\ rets["misel"] = "False"
    /\ ENDPOINT_ACC_MASTER \in requested

\* the fetch of the entity failed, or its upload returned False
FailedEntity(entity) == fetched[entity] = "None" \/ rets[entity] = "False"

\* C3  Non-critical isolation: after a failed fetch or a failed upload of an
\* entity other than acc_master, run goes on: its next step is the fetch of
\* the next entity, or that fetch has been done; (and the witness) such a run
\* can still return True.
C3_NonCriticalIsolation ==
    \A k \in 1..(Len(Order) - 1) :
        (Order[k] # Critical /\ FailedEntity(Order[k])) =>
            \/ fetched[Order[k + 1]] # "no"
            \/ (rpc = "fetch" /\ ent = k + 1 /\ result = "none")

\* run returned True although every non-critical entity failed, some in the
\* fetch and some in the upload
C3_Witness ==
    /\ result = "True"
    /\ \A k \in DOMAIN Order : Order[k] # Critical => FailedEntity(Order[k])
    /\ fetched["users"] = "None"
    /\ rets["misel"] = "False"
    /\ rets["acc_ledgers"] = "False"
    /\ fetched["acc_invmast"] = "None"
    /\ rets[Critical] = "True"

\* C5  (the claim as stated) whenever run is over and the connection was
\* opened, it was opened once and closed once.
C5_ClosedOnEveryExit ==
    (rpc = "done" /\ conn.opened >= 1) => conn.opened = 1 /\ conn.closed = 1

\* C6  (the claim as stated) once the connection is open, no upload operation
\* and no run ends by raising an exception to its caller.
C6_NoErrorEscapes == conn.opened >= 1 => (ret # "raised" /\ result # "raised")

----------------------------------------------------------------------------
(* Claims C11 to C20 *)

\* the upload in progress clears best-effort: upload_cashandbankaccmaster,
\* and upload_acc_ledgers in _upload_in_batches with a batch size >= 1
BestEffortClear ==
    \/ call.op = "upload_cashandbankaccmaster"
    \/ /\ call.op = "upload_acc_ledgers"
       /\ call.fn = "_upload_in_batches"
       /\ call.batch_size >= 1

\* C11  Best-effort clear: in upload_cashandbankaccmaster, and in
\* upload_acc_ledgers through _upload_in_batches, a failed clear (a status
\* other than 200/201, or an exception) never ends the upload: the upload
\* returns only after a data request, and returns True exactly when its last
\* data request succeeded.
C11_BestEffortClearIgnored ==
    (/\ BestEffortClear /\ call.data # <<>>
     /\ ClearFailed /\ call.phase = "idle" /\ ret \in {"True", "False"}) =>
        /\ Len(reqs) >= 2
        /\ reqs[Len(reqs)].kind \in {"single", "batch"}
        /\ ret = Result(reqs[Len(reqs)].outcome)

\* self.session.post in the upload call in progress ends with o
RequestStep(o) ==
    \/ PostSingle(o)
    \/ AccMasterClear(o)
    \/ AccMasterData(o)
    \/ WithClearClear(o)
    \/ WithClearBatch(o)
    \/ BatchesClear(o)
    \/ BatchesBatch(o)
    \/ CashBankClear(o)
    \/ CashBankData(o)

\* the post raised, or its response has a status other than 200/201
FailureOutcomes == {o \in AllOutcomes : ~Ok(o)}

Phases == {"idle", "single", "am_clear", "am_data", "wc_clear", "wc_batch",
           "b_clear", "b_batch", "cb_clear", "cb_data"}

\* where the upload call can be after one request: its frame and its result
AfterRequest ==
    {[call |-> [call EXCEPT !.phase = p, !.i = j], ret |-> r] :
        p \in Phases, j \in {0, call.i}, r \in {"none", "True", "False", "raised"}}

\* the pending request, ending with o, leaves the upload call in a
RequestLeads(o, a) == ENABLED (RequestStep(o) /\ call' = a.call /\ ret' = a.ret)

\* C12  Failure-kind indistinguishability: at every request of every upload
\* operation, an exception and a response with a status other than 200/201
\* leave the upload call in the same place (the same frame, hence the same
\* later requests, and the same result).
C12_FailureKindIndistinguishable ==
    \A o1, o2 \in FailureOutcomes : \A a \in AfterRequest :
        RequestLeads(o1, a) <=> RequestLeads(o2, a)

----------------------------------------------------------------------------
(* SpecInterrupt: SyncTool.run under run_interactive, with an operator who  *)
(* can press Ctrl-C once while the connection is open                       *)

\* KeyboardInterrupt is raised in run, at a fetch or inside an upload call.
\* It is a BaseException: no "except Exception" or "except pyodbc.Error" of
\* the fetches, the uploads or run stops it, so it leaves run at once.
Interrupt ==
    /\ rpc \in {"fetch", "uploading"}
    /\ Leave("interrupt")
    /\ call' = [call EXCEPT !.phase = "idle"]
    /\ UNCHANGED <<config, ent, conn, fetched, rets, reqs, success_count, ret, requested,
                   validated>>

\* run_interactive, given how run ended: a returned value is reported, an
\* Exception is caught by "except Exception" and reported; SystemExit and
\* KeyboardInterrupt pass through it. It never closes the connection.
run_interactive(r) ==
    IF r \in {"True", "False"} THEN "reported"
    ELSE IF r = "raised" THEN "caught"
    ELSE "uncaught"

NextInterrupt ==
    \/ Next
    \/ Interrupt

SpecInterrupt == Init /\ [][NextInterrupt]_vars

\* C13  Operator interrupt: when a KeyboardInterrupt ends run while the
\* connection is open, run_interactive catches it and the connection has
\* been closed.
C13_InterruptClosesConnection ==
    (rpc = "done" /\ result = "interrupt") =>
        /\ run_interactive(result) = "caught"
        /\ conn.closed = conn.opened

----------------------------------------------------------------------------
(* Claims C14 to C18 about SyncTool.run, checked under Spec *)

\* config.json exists, parses, and has every key run reads without a default
ConfigComplete ==
    /\ config.file = "ok"
    /\ config.database_dsn /\ config.api_base_url /\ config.settings /\ config.client_id

\* run has opened no connection, fetched nothing and sent no request
NoSideEffect ==
    /\ conn.opened = 0
    /\ \A e \in Entities : fetched[e] = "no"
    /\ requested = {}

\* C14  Configuration errors are detected before any side effect: with a
\* missing or invalid config.json, or a missing database.dsn, api.base_url or
\* settings.client_id, run opens no connection, fetches nothing and sends no
\* request.
C14_ConfigErrorBeforeSideEffects == ~ConfigComplete => NoSideEffect

\* a configured batch size is zero or negative
NonPositiveBatchSize ==
    /\ ConfigComplete
    /\ (config.batch_size <= 0 \/ config.large_table_batch_size <= 0)

\* the upload call cleared the server's table, sent no batch of its
\* records, and returned True
ClearedAndSentNothing ==
    /\ call.data # <<>>
    /\ ClearIdx # {}
    /\ BatchIdx = {}
    /\ call.phase = "idle" /\ ret = "True"

\* C15  Non-positive batch size is rejected at startup: with
\* settings.batch_size or settings.large_table_batch_size <= 0, run fetches
\* nothing and sends no request; in particular no upload of a non-empty
\* record list sends a clear and returns True without a batch.
C15_NonPositiveBatchRejected ==
    /\ NonPositiveBatchSize =>
          /\ \A e \in Entities : fetched[e] = "no"
          /\ requested = {}
    /\ ~(InBatchLoops /\ ClearedAndSentNothing)

\* C16  Connection failure aborts the run before any entity is processed:
\* while no connection has been opened nothing is fetched, no upload is
\* called and no request is sent; and when connect() has failed (config.json
\* and database.dsn are there, run is over, no connection was opened) run
\* has returned False.
C16_ConnectFailureAborts ==
    /\ conn.opened = 0 =>
          /\ \A e \in Entities : fetched[e] = "no" /\ rets[e] = "none"
          /\ requested = {} /\ reqs = <<>>
    /\ (rpc = "done" /\ conn.opened = 0 /\ config.file = "ok" /\ config.database_dsn) =>
          result = "False"

\* connect() failed on a complete configuration and run returned False
C16_Witness ==
    /\ ConfigComplete
    /\ rpc = "done" /\ result = "False"
    /\ conn.opened = 0
    /\ NoSideEffect

----------------------------------------------------------------------------
(* Claims C17, C19 and C20 about the upload operations, checked under       *)
(* SpecUpload                                                               *)

\* the request returned a response, with status 200 or 201
Acknowledged(r) == ~r.outcome.exc /\ r.outcome.status \in {200, 201}

\* request k is a clear whose failure the code only logs
BestEffortClearAt(k) ==
    /\ reqs[k].kind = "clear"
    /\ (call.fn = "_upload_in_batches" \/ call.op = "upload_cashandbankaccmaster")

\* the upload ended at request k and returned False
EndedInFailureAt(k) == k = Len(reqs) /\ call.phase = "idle" /\ ret = "False"

\* C17  Response classification: every request on which the upload's course
\* depends (single-shot request, batch, mandatory clear) counts as failed,
\* i.e. ends the upload with False, exactly when it raised or its status is
\* not 200 or 201 (204 and 500 alike); after a request that got 200 or 201,
\* a best-effort clear included, the upload goes on or returns True.
C17_ResponseClassification ==
    \A k \in 1..Len(reqs) :
        IF BestEffortClearAt(k)
        THEN Acknowledged(reqs[k]) => ~EndedInFailureAt(k)
        ELSE Acknowledged(reqs[k]) <=> ~EndedInFailureAt(k)

\* a batch answered 204 ended a batched upload whose clear got 201 and whose
\* first batch got 200
C17_Witness ==
    /\ call.fn = "_upload_in_batches_with_clear"
    /\ Len(reqs) = 3
    /\ reqs[1].outcome.status = 201
    /\ reqs[2].outcome.status = 200
    /\ reqs[3].outcome.status = 204
    /\ EndedInFailureAt(3)

----------------------------------------------------------------------------
\* run has returned a value (it did not raise or exit)
Returned == rpc = "done" /\ result \in {"True", "False"}

\* C18  Overall result rule: when run returns, it returns False exactly when
\* connect() failed or upload_acc_master returned False; what the fetches
\* and the uploads of the other entities did has no part in it. (A failed
\* initialization ends the process and returns nothing.)
C18_OverallResult ==
    Returned => (result = "False" <=> (conn.opened = 0 \/ rets[Critical] = "False"))

\* run returned True after fetches and uploads of other entities failed
C18_Witness ==
    /\ Returned /\ result = "True"
    /\ rets["users"] = "False"
    /\ fetched["misel"] = "None"
    /\ rets[Critical] = "True"
    /\ rets["cashandbankaccmaster"] = "False"
    /\ rets["acc_tt_servicemaster"] = "False"

----------------------------------------------------------------------------
\* the number of records in the batches of rs acknowledged with 200/201
RECURSIVE AckedRecords(_)
AckedRecords(rs) ==
    IF rs = <<>> THEN 0
    ELSE (IF Head(rs).kind = "batch" /\ Acknowledged(Head(rs)) THEN Len(Head(rs).body) ELSE 0)
         + AckedRecords(Tail(rs))

\* the upload has sent every request it had to: all its records, in batches
\* or in its single-shot request (nothing, where empty data is not sent)
AllDataSent ==
    IF InBatchLoops THEN ConcatBodies(reqs) = call.data
    ELSE \/ call.data = <<>> /\ reqs = <<>>
         \/ \E k \in 1..Len(reqs) : reqs[k].kind = "single" /\ reqs[k].body = call.data

\* every request sent, except a best-effort clear, got 200 or 201
AllRequiredAcknowledged ==
    \A k \in 1..Len(reqs) : ~BestEffortClearAt(k) => Acknowledged(reqs[k])

\* an upload operation has returned True or False
UploadReturned == call.op # "none" /\ call.phase = "idle" /\ ret \in {"True", "False"}

\* C19  Result aggregation: each upload_<entity> returns True exactly when
\* it has sent every request it had to (the mandatory clear where there is
\* one, and the single-shot request or every batch) and each was answered
\* 200/201; in the batch loops success_count is always the number of
\* records in the acknowledged batches, and when the upload has returned it
\* equals the number of records exactly if the upload returned True.
C19_ResultAggregation ==
    call.op \in EntityOps =>
        /\ UploadReturned => (ret = "True" <=> (AllDataSent /\ AllRequiredAcknowledged))
        /\ InBatchLoops => success_count = AckedRecords(reqs)
        /\ (InBatchLoops /\ UploadReturned) =>
              (ret = "True" <=> success_count = Len(call.data))

----------------------------------------------------------------------------
(* SpecUploadLive: the upload operations, where every request that is       *)
(* pending eventually returns (a response, or an exception at its timeout)  *)

\* the pending self.session.post of the upload call returns
RequestReturns ==
    \/ DoPostSingle
    \/ DoAccMasterClear
    \/ DoAccMasterData
    \/ DoWithClearClear
    \/ DoWithClearBatch
    \/ DoBatchesClear
    \/ DoBatchesBatch
    \/ DoCashBankClear
    \/ DoCashBankData

SpecUploadLive == SpecUpload /\ WF_vars(RequestReturns)

\* no batch is sent twice, and the requests of one upload are at most one
\* clear and ceil(n/b) batches, or two on the single-shot paths
RequestBound ==
    /\ \A j, k \in BatchIdx : j # k => reqs[j].body # reqs[k].body
    /\ Cardinality(ClearIdx) <= 1
    /\ IF InBatchLoops
       THEN call.batch_size >= 1 =>
               Len(reqs) <= 1 + CeilDiv(Len(call.data), call.batch_size)
       ELSE Len(reqs) <= 2

\* C20  No re-drive and bounded termination: if every request returns,
\* every upload operation that was called returns; no batch is ever sent a
\* second time, and an upload of n records with batch size b >= 1 sends at
\* most 1 + ceil(n/b) requests, at most 2 on a single-shot path.
C20_NoRedriveBoundedTermination ==
    /\ []RequestBound
    /\ (call.phase # "idle") ~> (call.phase = "idle" /\ ret # "none")

\* a batched upload of 5 records in batches of 2 has sent its clear and its
\* 3 batches, and returned
C20_Witness ==
    /\ InBatchLoops
    /\ Len(call.data) = 5 /\ call.batch_size = 2
    /\ Len(reqs) = 4 /\ Cardinality(BatchIdx) = 3
    /\ call.phase = "idle" /\ ret # "none"

----------------------------------------------------------------------------
(* The timeout of a batch request, in half seconds (len(batch) * 0.5 is a   *)
(* float that need not be whole)                                            *)

Max(a, b) == IF a >= b THEN a ELSE b

\* (mutant) the acc_master timeout has the floor of the other tables, 60 s
WithClearTimeout_Floor60(table_name, n) ==
    IF table_name = "acc_master" THEN Min(2 * 240, Max(2 * 60, n))
    ELSE 2 * Min(180, Max(60, n \div 5))

\* _upload_in_batches_with_clear: min(240, max(120, len(batch) * 0.5)) for
\* acc_master, min(180, max(60, len(batch) // 5)) otherwise
WithClearTimeout(table_name, n) ==
    IF table_name = "acc_master" THEN Min(2 * 240, Max(2 * 120, n))
    ELSE 2 * Min(180, Max(60, n \div 5))

\* _upload_in_batches: min(180, max(60, len(batch) // 5))
BatchesTimeout(n) == 2 * Min(180, Max(60, n \div 5))

\* the timeout, in half seconds, the call in progress passes with a batch of n records
BatchTimeout(n) ==
    IF call.fn = "_upload_in_batches_with_clear" THEN WithClearTimeout(call.table, n)
    ELSE BatchesTimeout(n)

\* the batch is of the heaviest table, acc_master
HeavyBatch == call.fn = "_upload_in_batches_with_clear" /\ call.table = "acc_master"

\* C21  (the claim as stated) the timeout of every batch request is a whole
\* number of seconds in [60, 240] for acc_master and in [60, 180] for the
\* other tables, and equals the multiplier times the batch length (0.5 s per
\* record for acc_master, a fifth of a second otherwise) whenever that
\* product lies in the window.
C21_TimeoutWindow60 ==
    \A k \in BatchIdx :
        LET n == Len(reqs[k].body)
            t == BatchTimeout(n)
        IN /\ t % 2 = 0
           /\ IF HeavyBatch
              THEN /\ 2 * 60 <= t /\ t <= 2 * 240
                   /\ (2 * 60 <= n /\ n <= 2 * 240) => t = n
              ELSE /\ 2 * 60 <= t /\ t <= 2 * 180
                   /\ (60 <= n \div 5 /\ n \div 5 <= 180) => t = 2 * (n \div 5)

\* C21  (amended) the timeout of an acc_master batch lies in [120, 240]: it
\* is 120 s up to 240 records and 0.5 s per record above, which is half a
\* second off a whole number for an odd batch length; every batch that
\* upload_acc_master sends gets 120 s. For the other tables the timeout is a
\* whole number in [60, 180], a fifth of the batch length rounded down once
\* that reaches 60.
C21_TimeoutWindow ==
    \A k \in BatchIdx :
        LET n == Len(reqs[k].body)
            t == BatchTimeout(n)
        IN IF HeavyBatch
           THEN /\ 2 * 120 <= t /\ t <= 2 * 240
                /\ n <= 240 => t = 2 * 120
                /\ (240 < n /\ n <= 480) => t = n
                /\ call.op = "upload_acc_master" => t = 2 * 120
           ELSE /\ t % 2 = 0
                /\ 2 * 60 <= t /\ t <= 2 * 180
                /\ n < 300 => t = 2 * 60
                /\ (300 <= n /\ n <= 900) => t = 2 * (n \div 5)

\* upload_acc_master has sent its batches, one of them of 200 records with
\* a timeout of 120 s, and returned True
C21_Witness ==
    /\ call.op = "upload_acc_master" /\ HeavyBatch
    /\ ret = "True"
    /\ \E k \in BatchIdx :
          /\ Len(reqs[k].body) = AccMasterBatch
          /\ BatchTimeout(Len(reqs[k].body)) = 2 * 120

----------------------------------------------------------------------------
(* SpecValidate: a validator is called on rows of its entity, and then on   *)
(* the clean records it returned                                            *)

\* values a column can hold: NULL, texts, numbers, a date
SampleValues ==
    {NoneV, StrV(""), StrV("abc"), StrV(" 12 "), StrV("12.5"), StrV("2024-01-31"),
     StrV("31/01/2024"), IntV("0"), IntV("7"), FloatV("0.0"), FloatV("12.5"),
     DateV("2024-01-31")}

\* rows of the entity: the good row, with any one column holding any value
RawRows(entity) ==
    {[GoodRow(entity) EXCEPT ![f] = v] : f \in DOMAIN GoodRow(entity), v \in SampleValues}

\* the lists the validator is given: one row, or a row and another after it
RawLists(entity) ==
    {<<row>> : row \in RawRows(entity)}
    \cup {<<row, GoodRow(entity)>> : row \in RawRows(entity)}

InitValidate ==
    /\ config = FullConfig(DefaultBatchSize, DefaultLargeBatch)
    /\ rpc = "validator"
    /\ InitRunVars
    /\ InitUploadVars

\* self.validate_<entity>_data(rows)
CallValidator ==
    /\ rpc = "validator" /\ validated.pass = 0
    /\ \E entity \in Entities : \E rows \in RawLists(entity) :
          validated' = Applied(entity, rows, 1)
    /\ UNCHANGED <<config, rpc, ent, conn, fetched, rets, result, uploadVars>>

\* the clean records are given to the same validator as its rows
Revalidate ==
    /\ rpc = "validator" /\ validated.pass = 1
    /\ ~validated.out.raised /\ validated.out.valid # <<>>
    /\ validated' = Applied(validated.entity, validated.out.valid, 2)
    /\ UNCHANGED <<config, rpc, ent, conn, fetched, rets, result, uploadVars>>

NextValidate ==
    \/ CallValidator
    \/ Revalidate

SpecValidate == InitValidate /\ [][NextValidate]_vars

----------------------------------------------------------------------------
(* Claims C22 and C23 about the validators, checked under SpecValidate *)

\* the optional numeric columns of the entity
NumericFields(entity) ==
    CASE entity = "acc_master" -> {"opening_balance", "debit", "credit"}
      [] entity = "acc_ledgers" -> {"debit", "credit", "voucher_no"}
      [] entity = "acc_invmast" -> {"nettotal", "paid"}
      [] entity = "cashandbankaccmaster" -> {"opening_balance", "debit", "credit"}
      [] OTHER -> {}

\* a value that is there and that float() does not convert
Unparseable(v) == v.t # "none" /\ PyFloat(v).exc # "none"

\* the first row given to the validator has its required columns and, in
\* an optional numeric column, a value that is no number
UnparseableNumericGiven ==
    /\ validated.pass = 1
    /\ ValidateRow(validated.entity, validated.raw[1]).kind # "dropped"
    /\ \E f \in NumericFields(validated.entity) : Unparseable(validated.raw[1][f])

\* C22  Unparseable optional numeric becomes null: when a row with its
\* required columns has a value that is no number in opening_balance, debit,
\* credit, voucher_no, nettotal or paid, the validator raises nothing, emits
\* a clean record for that row and for every row after it, and the clean
\* record has null in that column.
C22_UnparseableNumericNull ==
    UnparseableNumericGiven =>
        /\ ~validated.out.raised
        /\ Len(validated.out.valid) = Len(validated.raw)
        /\ \A f \in NumericFields(validated.entity) :
              Unparseable(validated.raw[1][f]) => validated.out.valid[1][f] = NoneV

\* C23  Validator idempotence: a validator given the clean records it
\* returned raises nothing, drops none of them and returns them unchanged.
C23_ValidatorIdempotent ==
    validated.pass = 2 =>
        /\ ~validated.out.raised
        /\ validated.out.valid = validated.raw

----------------------------------------------------------------------------
(* Claims C24 and C25 about the requests of an upload, checked under        *)
(* SpecUpload, and C26 about run, checked under Spec                        *)

\* what the destination held for the entity before the upload
OldRemote == <<0>>

\* the destination after the requests rs, from the records remote: an
\* acknowledged request replaces them by its payload, or appends its payload
\* when it carries append=true; a failed request changes nothing
RECURSIVE RemoteAfter(_, _)
RemoteAfter(rs, remote) ==
    IF rs = <<>> THEN remote
    ELSE RemoteAfter(Tail(rs),
                     IF ~Acknowledged(Head(rs)) THEN remote
                     ELSE IF Head(rs).append THEN remote \o Head(rs).body
                     ELSE Head(rs).body)

Remote == RemoteAfter(reqs, OldRemote)

\* a batched upload whose clear was acknowledged has failed at a batch
FailedAtBatchAfterClear ==
    /\ InBatchLoops /\ UploadReturned /\ ret = "False"
    /\ ClearIdx # {} /\ Acknowledged(reqs[1])
    /\ reqs[Len(reqs)].kind = "batch"

\* C24  Remote state after an upload: after an upload_<entity> of a
\* non-empty record list has returned True, the destination holds exactly
\* the records given, in order; after a batched upload whose clear succeeded
\* has failed at batch k, it holds exactly batches 1..k-1, a strict prefix
\* of the records given.
C24_RemoteState ==
    (call.op \in EntityOps /\ call.data # <<>>) =>
        /\ (UploadReturned /\ ret = "True") => Remote = call.data
        /\ FailedAtBatchAfterClear =>
              /\ success_count < Len(call.data)
              /\ Remote = SubSeq(call.data, 1, success_count)

\* positions in reqs of the requests that carry records
DataIdx == {k \in 1..Len(reqs) : reqs[k].kind \in {"single", "batch"}}

\* C25  Append only after an acknowledged first batch: a request with
\* append=true comes after the first data request of its upload, which went
\* without append and was answered 200/201 (as was every data request in
\* between); the first data request never carries append=true, and no
\* request carries force_clear=true together with append=true.
C25_AppendAfterAcknowledgedFirst ==
    \A k \in 1..Len(reqs) :
        /\ ~(reqs[k].force_clear /\ reqs[k].append)
        /\ reqs[k].append =>
              /\ k \in DataIdx
              /\ \E j \in DataIdx : j < k
              /\ \A j \in DataIdx : j < k => Acknowledged(reqs[j])
        /\ (k \in DataIdx /\ \A j \in DataIdx : k <= j) => ~reqs[k].append

\* upload_acc_ledgers has sent a second batch with append=true after a
\* first one without, and then failed at the third
C25_Witness ==
    /\ call.op = "upload_acc_ledgers"
    /\ Cardinality(BatchIdx) = 3
    /\ \E k \in BatchIdx : reqs[k].append /\ Acknowledged(reqs[k])
    /\ \E k \in BatchIdx : ~reqs[k].append /\ Acknowledged(reqs[k])
    /\ reqs[Len(reqs)].append /\ ~Acknowledged(reqs[Len(reqs)])
    /\ ret = "False"

\* run had nothing to send for the entity: its fetch failed or returned no
\* row, or no row was valid
NothingToSend(entity) == fetched[entity] \in {"None", "empty", "no valid"}

\* C26  No request for an entity with nothing to send: when the fetch of an
\* entity failed or returned no row, or validation left no clean record,
\* run calls no upload for it and no request, clear or other, goes to its
\* endpoint.
C26_NoRequestWithoutData ==
    \A e \in Entities :
        NothingToSend(e) =>
            /\ EndpointOf(e) \notin requested
            /\ rets[e] = "none"
            /\ ~(rpc = "uploading" /\ Order[ent] = e)

\* run returned True having had nothing to send for four entities, one for
\* each reason, and having uploaded acc_master
C26_Witness ==
    /\ Returned /\ result = "True"
    /\ fetched["users"] = "None"
    /\ fetched["acc_ledgers"] = "empty"
    /\ fetched["cashandbankaccmaster"] = "no valid"
    /\ fetched["acc_tt_servicemaster"] = "no valid"
    /\ ENDPOINT_ACC_MASTER \in requested
    /\ requested \cap {ENDPOINT_USERS, ENDPOINT_ACC_LEDGERS, ENDPOINT_CASH_BANK,
                        ENDPOINT_ACC_TT_SERVICE} = {}

====
